---------------------------- MODULE Spec2Model ----------------------------
(***************************************************************************)
(* css-audit (src/src/main.rs): the command line, the walk over the rules  *)
(* of every stylesheet, the accumulation of custom-property usages, the   *)
(* finalization (sort, dedup) and the renderers.                           *)
(*                                                                         *)
(* A Rust String is modelled as a sequence of one-character strings, so    *)
(* that starts_with, contains, split and the byte-wise ordering used by    *)
(* sort() are computed the way the code computes them.                     *)
(***************************************************************************)
EXTENDS Integers, Sequences, FiniteSets, TLC

VARIABLES
    pc,                 \* position of main()
    args,               \* env::args() without the program name
    fs,                 \* the file system: path -> content of the file
    format,             \* the OutputFormats value selected
    stylesheets,        \* Vec<String> of paths left after option removal
    idx,                \* index of the stylesheet the for loop is at
    rules,              \* rules of the current stylesheet not yet drained
    custom_properties,  \* HashMap<String, Vec<String>>
    finalized,          \* Vec<(&String, &Vec<String>)> sorted by key
    stdout,             \* what println! wrote
    stderr,             \* what eprintln! (and a panic) wrote
    reads,              \* paths handed to read_to_string, in order
    status              \* exit status, -1 while the process runs

vars == <<pc, args, fs, format, stylesheets, idx, rules, custom_properties,
          finalized, stdout, stderr, reads, status>>

----------------------------------------------------------------------------
(* Bounds of the model *)

\* longest argument list drawn for the command-line cases
MaxArgs == 3
\* most stylesheet paths on the command line of a walking run
MaxSheets == 2
\* most top-level rules over all the stylesheets of a walking run
MaxRules == 2

----------------------------------------------------------------------------
(* Strings *)

\* the characters in use, in byte order (the order of String::cmp)
Alphabet == <<"\n", " ", "(", ")", "-", ".", "=", "@", "_",
              "a", "b", "c", "d", "e", "f", "h", "i", "j", "k", "l", "m",
              "n", "o", "p", "r", "s", "t", "u", "v", "w", "x", "y">>

Ord(c) == CHOOSE i \in 1..Len(Alphabet) : Alphabet[i] = c

\* a < b in the byte-wise lexicographic order of Rust's String
RECURSIVE StrLess(_, _)
StrLess(a, b) ==
    IF b = <<>> THEN FALSE
    ELSE IF a = <<>> THEN TRUE
    ELSE IF a[1] = b[1] THEN StrLess(Tail(a), Tail(b))
    ELSE Ord(a[1]) < Ord(b[1])

StartsWith(s, p) == Len(s) >= Len(p) /\ SubSeq(s, 1, Len(p)) = p

Contains(s, c) == \E i \in 1..Len(s) : s[i] = c

\* text before the first occurrence of character c (all of s without one)
RECURSIVE Before(_, _)
Before(s, c) ==
    IF s = <<>> \/ s[1] = c THEN <<>> ELSE <<s[1]>> \o Before(Tail(s), c)

\* text after the first occurrence of character c (s must contain c)
RECURSIVE After(_, _)
After(s, c) == IF s[1] = c THEN Tail(s) ELSE After(Tail(s), c)

\* arg.split("=").collect::<Vec<&str>>()[1], for an arg that contains "="
SplitSecond(arg) == Before(After(arg, "="), "=")

sHelp      == <<"-", "-", "h", "e", "l", "p">>
sFormat    == <<"-", "-", "f", "o", "r", "m", "a", "t">>
sDashDash  == <<"-", "-">>
sReserved  == <<"-", "-", "_", "_">>
sJson      == <<"j", "s", "o", "n">>
sHtml      == <<"h", "t", "m", "l">>
sNone      == <<"n", "o", "n", "e">>
sKeyframes == <<"@", "k", "e", "y", "f", "r", "a", "m", "e", "s", " ">>
sMedia     == <<"@", "m", "e", "d", "i", "a", " ">>
sSupports  == <<"@", "s", "u", "p", "p", "o", "r", "t", "s", " ">>
sContainer == <<"@", "c", "o", "n", "t", "a", "i", "n", "e", "r", " ">>
sLayer     == <<"@", "l", "a", "y", "e", "r">>
sNested    == <<"\n", " ", " ", " ", " ">>
sIndent    == <<" ", " ">>

----------------------------------------------------------------------------
(* The command line *)

\* stylesheets.iter().position(|x| x.starts_with("--format")); 0 for None
FormatPosition(list) ==
    IF \E i \in 1..Len(list) : StartsWith(list[i], sFormat)
    THEN CHOOSE i \in 1..Len(list) :
            /\ StartsWith(list[i], sFormat)
            /\ \A j \in 1..(i - 1) : ~StartsWith(list[j], sFormat)
    ELSE 0

\* the match on the format word
MatchFormat(word) ==
    IF word = sJson THEN "JSON"
    ELSE IF word = sHtml THEN "HTML"
    ELSE IF word = sNone THEN "None"
    ELSE "Terminal"

\* Vec::remove(i), 1-based
RemoveAt(list, i) == SubSeq(list, 1, i - 1) \o SubSeq(list, i + 1, Len(list))

\* stylesheets[index + 1] is out of bounds: the process panics
FormatPanics(list) ==
    LET index == FormatPosition(list) IN
    /\ index > 0
    /\ ~Contains(list[index], "=")
    /\ index + 1 > Len(list)

\* the value of `format` (for a list on which the code does not panic)
SelectFormat(list) ==
    LET index == FormatPosition(list) IN
    IF index = 0 THEN "Terminal"
    ELSE IF Contains(list[index], "=") THEN MatchFormat(SplitSecond(list[index]))
    ELSE MatchFormat(list[index + 1])

\* `stylesheets` after the format option was removed
RemoveFormat(list) ==
    LET index == FormatPosition(list) IN
    IF index = 0 THEN list
    ELSE IF Contains(list[index], "=") THEN RemoveAt(list, index)
    ELSE RemoveAt(RemoveAt(list, index + 1), index)

\* stylesheets.retain(|x| !x.starts_with("--"))
RetainPaths(list) == SelectSeq(list, LAMBDA x : ~StartsWith(x, sDashDash))

----------------------------------------------------------------------------
(* The parser's object model, as far as main.rs reads it *)

\* TokenOrValue: the Var variant carries the name, every other variant is
\* skipped by the `_ => {}` arm
VarToken(name) == [kind |-> "Var", name |-> name]
OtherToken == [kind |-> "Other", name |-> <<>>]

\* Property: the Unparsed variant carries a TokenList, every other variant
\* is skipped by the `_ => {}` arm
Unparsed(tokens) == [kind |-> "Unparsed", tokens |-> tokens]
Parsed == [kind |-> "Parsed", tokens |-> <<>>]

\* CssRule.  text is what to_css / to_string / {:?} prints for the rule's
\* query, condition or name; textKind is the variant of that name.
Rule(kind, textKind, text, selectors, declarations, keyframes, children) ==
    [kind |-> kind, textKind |-> textKind, text |-> text,
     selectors |-> selectors, declarations |-> declarations,
     keyframes |-> keyframes, rules |-> children]

StyleRule(selectors, declarations) ==
    Rule("Style", "", <<>>, selectors, declarations, <<>>, <<>>)
KeyframesRule(nameKind, name, keyframes) ==
    Rule("Keyframes", nameKind, name, <<>>, <<>>, keyframes, <<>>)
MediaRule(query, children) ==
    Rule("Media", "", query, <<>>, <<>>, <<>>, children)
SupportsRule(condition, children) ==
    Rule("Supports", "", condition, <<>>, <<>>, <<>>, children)
ContainerRule(condition, children) ==
    Rule("Container", "", condition, <<>>, <<>>, <<>>, children)
LayerBlockRule(nameKind, name, children) ==
    Rule("LayerBlock", nameKind, name, <<>>, <<>>, <<>>, children)
\* the variants main.rs only reports, and the ones it passes over in silence
\* (`_ => {}`: @import, @font-face, @page, ...); children is what the rule
\* holds, which main.rs never looks at
SkippedRule(kind, children) ==
    Rule(kind, "", <<>>, <<>>, <<>>, <<>>, children)

Unsupported == {"CustomMedia", "Scope", "Nesting", "StartingStyle", "Property"}
Conditional == {"Media", "Supports", "Container", "LayerBlock"}

----------------------------------------------------------------------------
(* handle_declarations *)

\* var.name.ident of every TokenOrValue::Var of one TokenList, in order
RECURSIVE TokenIdents(_)
TokenIdents(tokens) ==
    IF tokens = <<>> THEN <<>>
    ELSE (IF tokens[1].kind = "Var" THEN <<tokens[1].name>> ELSE <<>>)
         \o TokenIdents(Tail(tokens))

\* the idents the two nested for loops visit, in order: only
\* Property::Unparsed declarations are looked into
RECURSIVE VisitedIdents(_)
VisitedIdents(declarations) ==
    IF declarations = <<>> THEN <<>>
    ELSE (IF declarations[1].kind = "Unparsed"
          THEN TokenIdents(declarations[1].tokens) ELSE <<>>)
         \o VisitedIdents(Tail(declarations))

\* faulty variant of the prefix test: equality with the prefix
IsReservedMutant(ident) == ident = sReserved

\* ident.starts_with("--__")
IsReserved(ident) == StartsWith(ident, sReserved)

\* if !contains_key(ident) { insert(ident, vec![]) }
InsertEmpty(map, ident) ==
    IF ident \in DOMAIN map THEN map
    ELSE [k \in DOMAIN map \cup {ident} |->
            IF k = ident THEN <<>> ELSE map[k]]

\* for selector in selectors { get_mut(ident).push(selector) }
PushAll(map, ident, selectors) ==
    [map EXCEPT ![ident] = @ \o selectors]

RECURSIVE ScanIdents(_, _, _)
ScanIdents(idents, selectors, map) ==
    IF idents = <<>> THEN map
    ELSE IF IsReserved(idents[1])
         THEN ScanIdents(Tail(idents), selectors, map)
         ELSE ScanIdents(Tail(idents), selectors,
                         PushAll(InsertEmpty(map, idents[1]), idents[1],
                                 selectors))

handle_declarations(selectors, declarations) ==
    ScanIdents(VisitedIdents(declarations), selectors, <<>>)

\* faulty variant of the merge: insert on every key, replacing the old list
MergeMutant(map, found) ==
    [k \in DOMAIN map \cup DOMAIN found |->
        IF k \in DOMAIN found THEN found[k] ELSE map[k]]

\* for (key, value) in found { insert when the key is new, extend otherwise }
Merge(map, found) ==
    [k \in DOMAIN map \cup DOMAIN found |->
        IF k \notin DOMAIN map THEN found[k]
        ELSE IF k \in DOMAIN found THEN map[k] \o found[k]
        ELSE map[k]]

----------------------------------------------------------------------------
(* The arms of the match over CssRule *)

\* format!("{:?}", selector.iter()) for each selector of a style rule
StyleLabels(style) == style.selectors

\* faulty variant of the nested labels: the selector without the prefix
NestedLabelsMutant(prefix, style) == style.selectors

\* format!("{}\n    {:?}", prefix, selector.iter()) for each selector
NestedLabels(prefix, style) ==
    [i \in 1..Len(style.selectors) |-> prefix \o sNested \o style.selectors[i]]

\* format!("@keyframes {}", name), the same for both KeyframesName variants
KeyframesLabel(rule) == sKeyframes \o rule.text

MediaPrefix(media) == sMedia \o media.text
SupportsPrefix(supports) == sSupports \o supports.text
ContainerPrefix(container) == sContainer \o container.text
LayerPrefix(layer_block) ==
    IF layer_block.textKind = "Some"
    THEN sLayer \o <<" ">> \o layer_block.text
    ELSE sLayer

\* CssRule::Style arm
WalkStyleRule(map, style) ==
    Merge(map, handle_declarations(StyleLabels(style), style.declarations))

\* CssRule::Keyframes arm: one handle_declarations and one merge per keyframe
RECURSIVE WalkKeyframes(_, _, _)
WalkKeyframes(map, selectors, keyframes) ==
    IF keyframes = <<>> THEN map
    ELSE WalkKeyframes(Merge(map, handle_declarations(selectors, keyframes[1])),
                       selectors, Tail(keyframes))

WalkKeyframesRule(map, rule) ==
    WalkKeyframes(map, <<KeyframesLabel(rule)>>, rule.keyframes)

\* faulty variant of the loop over the nested rules: a child that is not a
\* style rule is descended into, and the rules nested in a style rule too
RECURSIVE WalkNestedMutant(_, _, _)
WalkNestedMutant(map, prefix, children) ==
    IF children = <<>> THEN map
    ELSE IF children[1].kind = "Style"
         THEN WalkNestedMutant(
                WalkNestedMutant(
                  Merge(map, handle_declarations(NestedLabels(prefix, children[1]),
                                                 children[1].declarations)),
                  prefix, children[1].rules),
                prefix, Tail(children))
         ELSE WalkNestedMutant(
                WalkNestedMutant(WalkKeyframesRule(map, children[1]), prefix,
                                 children[1].rules),
                prefix, Tail(children))

\* the loop over the rules nested in a media, supports, container or layer
\* rule: CssRule::Style children are scanned, `_ => {}` for every other child
RECURSIVE WalkNested(_, _, _)
WalkNested(map, prefix, children) ==
    IF children = <<>> THEN map
    ELSE IF children[1].kind = "Style"
         THEN WalkNested(
                Merge(map, handle_declarations(NestedLabels(prefix, children[1]),
                                               children[1].declarations)),
                prefix, Tail(children))
         ELSE WalkNested(map, prefix, Tail(children))

WalkMediaRule(map, media) == WalkNested(map, MediaPrefix(media), media.rules)
WalkSupportsRule(map, supports) ==
    WalkNested(map, SupportsPrefix(supports), supports.rules)
WalkContainerRule(map, container) ==
    WalkNested(map, ContainerPrefix(container), container.rules)
WalkLayerBlockRule(map, layer_block) ==
    WalkNested(map, LayerPrefix(layer_block), layer_block.rules)

----------------------------------------------------------------------------
(* Finalization *)

\* Vec<String>::sort(): insertion of x into a sorted sequence, after its equals
RECURSIVE InsertSorted(_, _)
InsertSorted(sorted, x) ==
    IF sorted = <<>> THEN <<x>>
    ELSE IF StrLess(x, sorted[1]) THEN <<x>> \o sorted
    ELSE <<sorted[1]>> \o InsertSorted(Tail(sorted), x)

RECURSIVE SortInto(_, _)
SortInto(sorted, rest) ==
    IF rest = <<>> THEN sorted
    ELSE SortInto(InsertSorted(sorted, rest[1]), Tail(rest))

\* faulty variant of the sort: the list is left in insertion order
SortLabelsMutant(selectors) == selectors

SortLabels(selectors) == SortInto(<<>>, selectors)

\* faulty variant of dedup: nothing is removed
DedupMutant(selectors) == selectors

\* Vec<String>::dedup(): consecutive equal elements collapse into the first
RECURSIVE Dedup(_)
Dedup(selectors) ==
    IF Len(selectors) < 2 THEN selectors
    ELSE IF selectors[1] = selectors[2] THEN Dedup(Tail(selectors))
    ELSE <<selectors[1]>> \o Dedup(Tail(selectors))

\* for (_, selectors) in &mut custom_properties { sort(); dedup(); }
SortDedupAll(map) == [k \in DOMAIN map |-> Dedup(SortLabels(map[k]))]

\* faulty variant of the sort by key: the comparison is reversed
RECURSIVE SortKeysMutant(_)
SortKeysMutant(keys) ==
    IF keys = {} THEN <<>>
    ELSE LET greatest == CHOOSE m \in keys :
                            \A o \in keys \ {m} : StrLess(o, m)
         IN <<greatest>> \o SortKeysMutant(keys \ {greatest})

\* iter().collect() followed by sort_by(|a, b| a.0.cmp(b.0)): the keys of a
\* HashMap are distinct, so the result does not depend on the iteration order
RECURSIVE SortKeys(_)
SortKeys(keys) ==
    IF keys = {} THEN <<>>
    ELSE LET least == CHOOSE m \in keys :
                        \A o \in keys \ {m} : StrLess(m, o)
         IN <<least>> \o SortKeys(keys \ {least})

SortByKey(map) ==
    LET keys == SortKeys(DOMAIN map)
    IN [i \in 1..Len(keys) |-> [key |-> keys[i], value |-> map[keys[i]]]]

FinalizeIndex(map) == SortByKey(SortDedupAll(map))

----------------------------------------------------------------------------
(* Renderers: stdout is a sequence of what each println! wrote *)

Line(text) == [kind |-> "line", body |-> text]

\* println!("  {}", selector) for each label
IndentedLines(value) == [i \in 1..Len(value) |-> Line(sIndent \o value[i])]

\* what a sequence of println! calls puts on the stream: each text and a
\* newline after it
RECURSIVE PrintedText(_)
PrintedText(out) ==
    IF out = <<>> THEN <<>>
    ELSE out[1].body \o <<"\n">> \o PrintedText(Tail(out))

\* faulty variant of the terminal loop: println!() at the end of every turn
RECURSIVE TerminalLinesMutant(_, _)
TerminalLinesMutant(entries, loop_count) ==
    IF entries = <<>> THEN <<>>
    ELSE <<Line(entries[1].key)>>
         \o IndentedLines(entries[1].value)
         \o <<Line(<<>>)>>
         \o TerminalLinesMutant(Tail(entries), loop_count + 1)

\* OutputFormats::Terminal
RECURSIVE TerminalLines(_, _)
TerminalLines(entries, loop_count) ==
    IF entries = <<>> THEN <<>>
    ELSE (IF loop_count > 0 THEN <<Line(<<>>)>> ELSE <<>>)
         \o <<Line(entries[1].key)>>
         \o IndentedLines(entries[1].value)
         \o TerminalLines(Tail(entries), loop_count + 1)

RenderTerminalOutput(entries) == TerminalLines(entries, 0)

\* OutputFormats::JSON: one println! of the pretty-printed array
RenderJSONOutput(entries) ==
    << [kind |-> "json",
        body |-> [i \in 1..Len(entries) |->
                    [selector |-> entries[i].key, rules |-> entries[i].value]]] >>

\* format!("selector-{:x}", xxh3_64(key.as_bytes())): the hash is a function
\* of the key, kept symbolic
AnchorId(key) == [hash |-> "xxh3_64", of |-> key]

\* OutputFormats::HTML: one println! of the template with the sections put
\* before </main> and the links before </css-audit-minimap>
RenderHTMLOutput(entries) ==
    << [kind |-> "html",
        body |-> [sections |->
                    [i \in 1..Len(entries) |->
                        [id |-> AnchorId(entries[i].key),
                         h2 |-> entries[i].key,
                         count |-> Len(entries[i].value),
                         li |-> entries[i].value]],
                  minimap |->
                    [i \in 1..Len(entries) |->
                        [href |-> AnchorId(entries[i].key),
                         text |-> entries[i].key]]]] >>

RenderOutput(fmt, entries) ==
    IF fmt = "Terminal" THEN RenderTerminalOutput(entries)
    ELSE IF fmt = "JSON" THEN RenderJSONOutput(entries)
    ELSE IF fmt = "HTML" THEN RenderHTMLOutput(entries)
    ELSE <<>>

----------------------------------------------------------------------------
(* Inputs: the texts, rules, stylesheets and argument lists the runs draw *)

nX == <<"-", "-", "x">>
nY == <<"-", "-", "y">>
nI == <<"-", "-", "_", "_", "i">>
selA == <<".", "a">>
selB == <<".", "b">>
tPrint == <<"p", "r", "i", "n", "t">>
tCondD == <<"(", "d", ")">>
tCondW == <<"(", "w", ")">>
tLayer == <<"l">>
tKey == <<"k">>
pA == <<"a", ".", "c", "s", "s">>
pB == <<"b", ".", "c", "s", "s">>

\* declaration blocks
dX  == <<Unparsed(<<VarToken(nX)>>)>>
dXX == <<Unparsed(<<VarToken(nX), OtherToken, VarToken(nX)>>),
         Unparsed(<<VarToken(nX)>>)>>
dYX == <<Unparsed(<<VarToken(nY)>>), Parsed, Unparsed(<<OtherToken, VarToken(nX)>>)>>
dI  == <<Unparsed(<<VarToken(nI)>>)>>
dIY == <<Unparsed(<<VarToken(nI), VarToken(nY)>>)>>
dNo == <<Parsed, Unparsed(<<OtherToken>>)>>

StylePool ==
    { StyleRule(<<selA>>, dX), StyleRule(<<selB>>, dX),
      StyleRule(<<selA, selB>>, dXX), StyleRule(<<selB>>, dYX),
      StyleRule(<<selA>>, dI), StyleRule(<<selB, selA>>, dIY),
      StyleRule(<<selA>>, dNo) }

\* rules nested in a conditional rule: style rules and other children
cOne   == <<StyleRule(<<selA>>, dX)>>
cMixed == <<SkippedRule("Scope", <<StyleRule(<<selA>>, dX)>>),
            StyleRule(<<selB, selA>>, dYX),
            MediaRule(tPrint, <<StyleRule(<<selB>>, dX)>>)>>
cPriv  == <<KeyframesRule("Ident", tKey, <<dX>>), StyleRule(<<selA>>, dIY),
            StyleRule(<<selA>>, dXX)>>
\* --x only out of reach: in a keyframes rule, in a media rule and in a style
\* rule nested in a style rule (style.rules), beside a style rule using --y
cDeep  == <<KeyframesRule("Ident", tKey, <<dX>>), MediaRule(tPrint, cOne),
            Rule("Style", "", <<>>, <<selB>>, dIY, <<>>, cOne)>>

RulePool ==
    StylePool
    \cup { KeyframesRule("Ident", tKey, <<dX, dYX>>),
           KeyframesRule("Custom", tKey, <<dIY, dXX>>),
           MediaRule(tPrint, cOne), MediaRule(tPrint, cMixed),
           SupportsRule(tCondD, cOne), SupportsRule(tCondD, cPriv),
           ContainerRule(tCondW, cMixed), ContainerRule(tCondW, cPriv),
           LayerBlockRule("Some", tLayer, cOne),
           LayerBlockRule("None", <<>>, cMixed),
           LayerBlockRule("Some", tLayer, cDeep),
           SkippedRule("CustomMedia", <<>>),
           SkippedRule("Scope", <<StyleRule(<<selA>>, dX)>>),
           SkippedRule("Nesting", <<StyleRule(<<selB>>, dYX)>>),
           SkippedRule("StartingStyle", <<StyleRule(<<selA>>, dX)>>),
           SkippedRule("Property", <<>>),
           SkippedRule("Page", <<StyleRule(<<>>, dX)>>) }

\* a file: readable and parsable into rules, unreadable, or unparsable
File(state, content) == [state |-> state, rules |-> content]
Unreadable == File("unreadable", <<>>)
Unparsable == File("unparsable", <<>>)

SheetsUpTo(n) == UNION { [1..k -> RulePool] : k \in 0..n }

\* the files a path can name when at most n rules are left to hand out
FilesUpTo(n) ==
    IF n < 0 THEN {Unreadable}
    ELSE { File("ok", sheet) : sheet \in SheetsUpTo(n) }
         \cup {Unreadable, Unparsable}

Range(list) == { list[i] : i \in 1..Len(list) }

\* every word that reaches read_to_string in some run
Paths == {pA, pB, sJson, sHtml}

\* the walking runs: one path naming a file of up to MaxRules rules, or two
\* to MaxSheets paths (a path may come twice) naming files of at most one
\* rule; a file no path names is absent
WalkInput ==
    \/ \E fa \in FilesUpTo(MaxRules) :
        /\ args = <<pA>>
        /\ fs = [p \in Paths |-> IF p = pA THEN fa ELSE Unreadable]
    \/ \E n \in 2..MaxSheets : \E list \in [1..n -> {pA, pB}] :
       \E fa \in FilesUpTo(IF pA \in Range(list) THEN 1 ELSE -1) :
       \E fb \in FilesUpTo(IF pB \in Range(list) THEN 1 ELSE -1) :
        /\ args = list
        /\ fs = [p \in Paths |-> IF p = pA THEN fa
                                 ELSE IF p = pB THEN fb ELSE Unreadable]

ArgPool ==
    { sHelp, sFormat, sFormat \o <<"=">> \o sJson, sFormat \o <<"=">> \o sHtml,
      sFormat \o <<"=">> \o sNone, sFormat \o <<"=">> \o sJson \o <<"=", "x">>,
      sFormat \o <<"t", "e", "r">>, <<"-", "-", "v">>, sJson, sHtml, pA }

\* the command-line runs: any list of up to MaxArgs arguments, fixed files
CliFiles ==
    [p \in Paths |->
        IF p = pA THEN File("ok", <<StyleRule(<<selB>>, dYX),
                                    MediaRule(tPrint, cOne)>>)
        ELSE IF p = sHtml THEN File("ok", <<StyleRule(<<selA>>, dX)>>)
        ELSE IF p = pB THEN Unparsable
        ELSE Unreadable]

CliInput ==
    \E n \in 0..MaxArgs : \E list \in [1..n -> ArgPool] :
        /\ args = list
        /\ fs = CliFiles

Init ==
    /\ WalkInput \/ CliInput
    /\ pc = "start"
    /\ format = "unset"
    /\ stylesheets = <<>>
    /\ idx = 1
    /\ rules = <<>>
    /\ custom_properties = <<>>
    /\ finalized = <<>>
    /\ stdout = <<>>
    /\ stderr = <<>>
    /\ reads = <<>>
    /\ status = -1

----------------------------------------------------------------------------
(* main *)

\* std::process::exit(code), and the exit of a panicking process
Exit(code) == pc' = "exit" /\ status' = code

\* a panic (expect, index out of bounds): message on stderr, exit status 101
Panic(message) ==
    /\ stderr' = Append(stderr, [kind |-> "panic", body |-> message])
    /\ Exit(101)

\* if env::args().any(|x| x == "--help") { print the usage; exit(0) }
Help ==
    /\ pc = "start"
    /\ \E i \in 1..Len(args) : args[i] = sHelp
    /\ stdout' = <<[kind |-> "help", body |-> <<>>]>>
    /\ Exit(0)
    /\ UNCHANGED <<args, fs, format, stylesheets, idx, rules, custom_properties,
                   finalized, stderr, reads>>

\* the format option is selected and removed, then the `--` arguments
ParseArgs ==
    /\ pc = "start"
    /\ \A i \in 1..Len(args) : args[i] # sHelp
    /\ ~FormatPanics(args)
    /\ format' = SelectFormat(args)
    /\ stylesheets' = RetainPaths(RemoveFormat(args))
    /\ pc' = "parsed"
    /\ UNCHANGED <<args, fs, idx, rules, custom_properties, finalized, stdout,
                   stderr, reads, status>>

\* stylesheets[index + 1] with `--format` as the last argument
ParseArgsPanic ==
    /\ pc = "start"
    /\ \A i \in 1..Len(args) : args[i] # sHelp
    /\ FormatPanics(args)
    /\ Panic("index out of bounds")
    /\ UNCHANGED <<args, fs, format, stylesheets, idx, rules, custom_properties,
                   finalized, stdout, reads>>

\* if stylesheets.len() == 0 { eprintln!("No stylesheets provided"); exit(1) }
NoStylesheets ==
    /\ pc = "parsed"
    /\ Len(stylesheets) = 0
    /\ stderr' = Append(stderr, [kind |-> "usage", body |-> "No stylesheets provided"])
    /\ Exit(1)
    /\ UNCHANGED <<args, fs, format, stylesheets, idx, rules, custom_properties,
                   finalized, stdout, reads>>

\* let mut custom_properties = HashMap::new(); the for loop is entered
StartWalk ==
    /\ pc = "parsed"
    /\ Len(stylesheets) # 0
    /\ custom_properties' = <<>>
    /\ idx' = 1
    /\ pc' = "walk"
    /\ UNCHANGED <<args, fs, format, stylesheets, rules, finalized, stdout,
                   stderr, reads, status>>

\* the loop is at a path: the previous stylesheet's rules are drained
AtPath == pc = "walk" /\ rules = <<>> /\ idx <= Len(stylesheets)

\* read_to_string and StyleSheet::parse succeed
ReadStylesheet ==
    /\ AtPath
    /\ fs[stylesheets[idx]].state = "ok"
    /\ reads' = Append(reads, stylesheets[idx])
    /\ rules' = fs[stylesheets[idx]].rules
    /\ idx' = idx + 1
    /\ UNCHANGED <<pc, args, fs, format, stylesheets, custom_properties,
                   finalized, stdout, stderr, status>>

\* faulty variant of the failed read: the path is reported and skipped
ReadFailsMutant ==
    /\ AtPath
    /\ fs[stylesheets[idx]].state = "unreadable"
    /\ reads' = Append(reads, stylesheets[idx])
    /\ stderr' = Append(stderr, [kind |-> "warning", body |-> "Failed to read stylesheet"])
    /\ idx' = idx + 1
    /\ UNCHANGED <<pc, args, fs, format, stylesheets, rules, custom_properties,
                   finalized, stdout, status>>

\* read_to_string(path).expect("Failed to read stylesheet")
ReadFails ==
    /\ AtPath
    /\ fs[stylesheets[idx]].state = "unreadable"
    /\ reads' = Append(reads, stylesheets[idx])
    /\ Panic("Failed to read stylesheet")
    /\ UNCHANGED <<args, fs, format, stylesheets, idx, rules, custom_properties,
                   finalized, stdout>>

\* StyleSheet::parse(..).expect("Failed to parse stylesheet")
ParseFails ==
    /\ AtPath
    /\ fs[stylesheets[idx]].state = "unparsable"
    /\ reads' = Append(reads, stylesheets[idx])
    /\ Panic("Failed to parse stylesheet")
    /\ UNCHANGED <<args, fs, format, stylesheets, idx, rules, custom_properties,
                   finalized, stdout>>

\* the match is at a rule of the given variants
AtRule(kinds) == pc = "walk" /\ rules # <<>> /\ rules[1].kind \in kinds

\* an arm that merges usages into custom_properties
Scan(map) ==
    /\ custom_properties' = map
    /\ rules' = Tail(rules)
    /\ UNCHANGED <<pc, args, fs, format, stylesheets, idx, finalized, stdout,
                   stderr, reads, status>>

\* an arm that writes one eprintln! and does nothing else
Warn(message) ==
    /\ stderr' = Append(stderr, [kind |-> "warning", body |-> message])
    /\ rules' = Tail(rules)
    /\ UNCHANGED <<pc, args, fs, format, stylesheets, idx, custom_properties,
                   finalized, stdout, reads, status>>

Keyframes ==
    AtRule({"Keyframes"}) /\ Scan(WalkKeyframesRule(custom_properties, rules[1]))

CustomMedia ==
    AtRule({"CustomMedia"}) /\ Warn("@custom-media is not supported")

Media ==
    AtRule({"Media"}) /\ Scan(WalkMediaRule(custom_properties, rules[1]))

Supports ==
    AtRule({"Supports"}) /\ Scan(WalkSupportsRule(custom_properties, rules[1]))

Container ==
    AtRule({"Container"}) /\ Scan(WalkContainerRule(custom_properties, rules[1]))

LayerBlock ==
    AtRule({"LayerBlock"}) /\ Scan(WalkLayerBlockRule(custom_properties, rules[1]))

Style ==
    AtRule({"Style"}) /\ Scan(WalkStyleRule(custom_properties, rules[1]))

\* faulty variant of the @scope arm: the style rules it holds are scanned
ScopeMutant ==
    /\ AtRule({"Scope"})
    /\ stderr' = Append(stderr, [kind |-> "warning", body |-> "@scope is not supported"])
    /\ custom_properties' =
         WalkNested(custom_properties, <<"@", "s", "c", "o", "p", "e">>, rules[1].rules)
    /\ rules' = Tail(rules)
    /\ UNCHANGED <<pc, args, fs, format, stylesheets, idx, finalized, stdout,
                   reads, status>>

Scope ==
    AtRule({"Scope"}) /\ Warn("@scope is not supported")

Nesting ==
    AtRule({"Nesting"}) /\ Warn("nesting is not supported")

StartingStyle ==
    AtRule({"StartingStyle"}) /\ Warn("@starting-style is not supported")

Property ==
    AtRule({"Property"}) /\ Warn("@property is not supported")

\* `_ => {}`: every other variant is passed over
OtherRule ==
    /\ pc = "walk" /\ rules # <<>>
    /\ rules[1].kind \notin
         Conditional \cup Unsupported \cup {"Style", "Keyframes"}
    /\ Scan(custom_properties)

\* faulty variant of the finalization: it is run when a stylesheet has been
\* walked, whether or not paths are left
FinalizeMutant ==
    /\ pc = "walk" /\ rules = <<>> /\ idx > 1
    /\ custom_properties' = SortDedupAll(custom_properties)
    /\ finalized' = FinalizeIndex(custom_properties)
    /\ pc' = "render"
    /\ UNCHANGED <<args, fs, format, stylesheets, idx, rules, stdout, stderr,
                   reads, status>>

\* after the loop: sort and dedup every label list, then sort by key
Finalize ==
    /\ pc = "walk" /\ rules = <<>> /\ idx > Len(stylesheets)
    /\ custom_properties' = SortDedupAll(custom_properties)
    /\ finalized' = FinalizeIndex(custom_properties)
    /\ pc' = "render"
    /\ UNCHANGED <<args, fs, format, stylesheets, idx, rules, stdout, stderr,
                   reads, status>>

\* the arm of `match format` writes its output and main returns
Render(fmt, output) ==
    /\ pc = "render"
    /\ format = fmt
    /\ stdout' = stdout \o output
    /\ pc' = "done"
    /\ status' = 0
    /\ UNCHANGED <<args, fs, format, stylesheets, idx, rules, custom_properties,
                   finalized, stderr, reads>>

RenderTerminal == Render("Terminal", RenderTerminalOutput(finalized))
RenderJSON == Render("JSON", RenderJSONOutput(finalized))
RenderHTML == Render("HTML", RenderHTMLOutput(finalized))
RenderNone == Render("None", <<>>)

Next ==
    \/ Help \/ ParseArgs \/ ParseArgsPanic \/ NoStylesheets \/ StartWalk
    \/ ReadStylesheet \/ ReadFails \/ ParseFails
    \/ Keyframes \/ CustomMedia \/ Media \/ Supports \/ Container
    \/ LayerBlock \/ Style \/ Scope \/ Nesting \/ StartingStyle \/ Property
    \/ OtherRule
    \/ Finalize
    \/ RenderTerminal \/ RenderJSON \/ RenderHTML \/ RenderNone

Spec == Init /\ [][Next]_vars

----------------------------------------------------------------------------
(* The whole accumulation as one function of the list of paths *)

\* the match over CssRule, for one rule
WalkRule(map, rule) ==
    IF rule.kind = "Keyframes" THEN WalkKeyframesRule(map, rule)
    ELSE IF rule.kind = "Media" THEN WalkMediaRule(map, rule)
    ELSE IF rule.kind = "Supports" THEN WalkSupportsRule(map, rule)
    ELSE IF rule.kind = "Container" THEN WalkContainerRule(map, rule)
    ELSE IF rule.kind = "LayerBlock" THEN WalkLayerBlockRule(map, rule)
    ELSE IF rule.kind = "Style" THEN WalkStyleRule(map, rule)
    ELSE map

\* for mut rule in stylesheet.rules.0.drain(..)
RECURSIVE WalkRules(_, _)
WalkRules(map, sheet) ==
    IF sheet = <<>> THEN map
    ELSE WalkRules(WalkRule(map, sheet[1]), Tail(sheet))

\* for path in &stylesheets, every file readable and parsable
RECURSIVE WalkSheets(_, _, _)
WalkSheets(map, paths, files) ==
    IF paths = <<>> THEN map
    ELSE WalkSheets(WalkRules(map, files[paths[1]].rules), Tail(paths), files)

Accumulate(paths, files) == WalkSheets(<<>>, paths, files)

----------------------------------------------------------------------------
(* Vocabulary of the properties *)

\* the index is finalized: the renderer is about to run, or has run
IndexFinal == pc \in {"render", "done"}

\* every stylesheet of the run can be read and parsed
AllFilesOk == \A i \in 1..Len(stylesheets) : fs[stylesheets[i]].state = "ok"

\* the top-level rules of the run's stylesheets, in the order walked
RECURSIVE RulesOf(_, _)
RulesOf(paths, files) ==
    IF paths = <<>> THEN <<>>
    ELSE files[paths[1]].rules \o RulesOf(Tail(paths), files)

InputRules == RulesOf(stylesheets, fs)

\* the names a declaration block refers to with a variable-reference token
RefNames(declarations) ==
    UNION { { declarations[i].tokens[j].name :
                j \in { t \in 1..Len(declarations[i].tokens) :
                          declarations[i].tokens[t].kind = "Var" } } :
            i \in { d \in 1..Len(declarations) :
                      declarations[d].kind = "Unparsed" } }

\* the declaration blocks scanned for a top-level rule, each with its context
\* labels: a style rule's, each keyframes step's, and those of the style
\* rules directly nested in a media, supports, container or layer rule
Block(labels, declarations) == [labels |-> labels, declarations |-> declarations]

AtPrefix(rule) ==
    IF rule.kind = "Media" THEN sMedia \o rule.text
    ELSE IF rule.kind = "Supports" THEN sSupports \o rule.text
    ELSE IF rule.kind = "Container" THEN sContainer \o rule.text
    ELSE IF rule.textKind = "Some" THEN sLayer \o <<" ">> \o rule.text
    ELSE sLayer

BlocksOf(rule) ==
    IF rule.kind = "Style"
    THEN { Block(Range(rule.selectors), rule.declarations) }
    ELSE IF rule.kind = "Keyframes"
    THEN { Block({sKeyframes \o rule.text}, rule.keyframes[i]) :
             i \in 1..Len(rule.keyframes) }
    ELSE IF rule.kind \in Conditional
    THEN { Block({ AtPrefix(rule) \o sNested \o rule.rules[i].selectors[j] :
                     j \in 1..Len(rule.rules[i].selectors) },
                 rule.rules[i].declarations) :
             i \in { c \in 1..Len(rule.rules) : rule.rules[c].kind = "Style" } }
    ELSE {}

ScannedBlocks == UNION { BlocksOf(InputRules[i]) : i \in 1..Len(InputRules) }

\* the (name, label) pairs of the finalized index
IndexPairs ==
    UNION { { <<finalized[i].key, finalized[i].value[j]>> :
                j \in 1..Len(finalized[i].value) } :
            i \in 1..Len(finalized) }

\* the usages found: a name that is not reserved, referred to in a scanned
\* block, under each context label of that block
UsagesFound ==
    UNION { { n \in RefNames(b.declarations) : ~StartsWith(n, sReserved) }
            \X b.labels : b \in ScannedBlocks }

\* the list of paths in another order
Reordered(paths, f) == [i \in 1..Len(paths) |-> paths[f[i]]]

\* the top-level rules the match has been through so far
WalkedRules ==
    LET opened == RulesOf(SubSeq(stylesheets, 1, idx - 1), fs)
    IN SubSeq(opened, 1, Len(opened) - Len(rules))

\* the warnings on the error stream
Warnings == SelectSeq(stderr, LAMBDA e : e.kind = "warning")

\* a sequence of rules without the rules of an unsupported variant
WithoutUnsupported(sheet) == SelectSeq(sheet, LAMBDA r : r.kind \notin Unsupported)

\* the rules of an unsupported variant the walker comes across at a rule: the
\* rule itself, and the rules directly nested in a conditional rule
UnsupportedAt(rule) ==
    (IF rule.kind \in Unsupported THEN 1 ELSE 0)
    + (IF rule.kind \in Conditional
       THEN Len(SelectSeq(rule.rules, LAMBDA r : r.kind \in Unsupported))
       ELSE 0)

RECURSIVE UnsupportedIn(_)
UnsupportedIn(sheet) ==
    IF sheet = <<>> THEN 0 ELSE UnsupportedAt(sheet[1]) + UnsupportedIn(Tail(sheet))

\* the command line as the usage text describes it: the format option is the
\* argument `--format` (its value is the next argument) or an argument
\* `--format=<value>`
IsFormatOption(arg) == arg = sFormat \/ StartsWith(arg, sFormat \o <<"=">>)

NoHelp == \A i \in 1..Len(args) : args[i] # sHelp

OptionAt(list) ==
    IF \E i \in 1..Len(list) : IsFormatOption(list[i])
    THEN CHOOSE i \in 1..Len(list) :
            /\ IsFormatOption(list[i])
            /\ \A j \in 1..(i - 1) : ~IsFormatOption(list[j])
    ELSE 0

\* the list holds a format option together with its value
HoldsFormatOption(list) ==
    /\ OptionAt(list) > 0
    /\ list[OptionAt(list)] = sFormat => OptionAt(list) < Len(list)

OptionValue(list) ==
    IF list[OptionAt(list)] = sFormat THEN list[OptionAt(list) + 1]
    ELSE SubSeq(list[OptionAt(list)], Len(sFormat) + 2, Len(list[OptionAt(list)]))

ModeOf(word) ==
    CASE word = sJson -> "JSON"
      [] word = sHtml -> "HTML"
      [] word = sNone -> "None"
      [] OTHER -> "Terminal"

\* the arguments left when the format option and its value are taken out,
\* then every argument that starts with `--`
PathsOf(list) ==
    LET at == OptionAt(list)
        rest == IF at = 0 THEN list
                ELSE IF list[at] = sFormat
                     THEN SubSeq(list, 1, at - 1) \o SubSeq(list, at + 2, Len(list))
                     ELSE SubSeq(list, 1, at - 1) \o SubSeq(list, at + 1, Len(list))
    IN SelectSeq(rest, LAMBDA a : ~StartsWith(a, sDashDash))

----------------------------------------------------------------------------
(* C1: no custom-property name starting with the reserved prefix `--__` is *)
(* a key of the accumulating map or of the finalized Usage Index, whether   *)
(* the reference stands in a style rule, a keyframes step or a style rule   *)
(* nested in a media, supports, container or layer rule.                    *)
C1_NoReservedKey ==
    /\ \A k \in DOMAIN custom_properties : ~StartsWith(k, sReserved)
    /\ \A i \in 1..Len(finalized) : ~StartsWith(finalized[i].key, sReserved)

\* a finished run over a keyframes rule and a conditional rule that both
\* refer to a reserved name beside another name, which is in the index
C1_Witness ==
    /\ pc = "done"
    /\ finalized # <<>>
    /\ \E i, j \in 1..Len(InputRules) :
        /\ InputRules[i].kind = "Keyframes"
        /\ InputRules[j].kind \in Conditional
        /\ \E b \in BlocksOf(InputRules[i]) : nI \in RefNames(b.declarations)
        /\ \E b \in BlocksOf(InputRules[j]) : nI \in RefNames(b.declarations)


----------------------------------------------------------------------------
(* C2: after finalization the label sequence of every property is strictly *)
(* increasing in lexicographic order, so it holds no label twice, however   *)
(* often the same (property, label) pair was appended during accumulation.  *)
C2_LabelsStrictlySorted ==
    IndexFinal =>
        \A i \in 1..Len(finalized) :
            \A j \in 1..(Len(finalized[i].value) - 1) :
                StrLess(finalized[i].value[j], finalized[i].value[j + 1])

\* a finished run over two stylesheets in which a property that keeps two
\* labels had been given more than three during accumulation
C2_Witness ==
    /\ pc = "done"
    /\ Len(stylesheets) = 2
    /\ \E i \in 1..Len(finalized) :
        /\ Len(finalized[i].value) = 2
        /\ Len(Accumulate(stylesheets, fs)[finalized[i].key]) > 3

----------------------------------------------------------------------------
(* C3: the finalized Usage Index is a sequence of (name, labels) pairs      *)
(* whose names are strictly increasing in lexicographic order, each name    *)
(* once, in whatever order the stylesheets and their rules were supplied.   *)
C3_NamesStrictlySorted ==
    IndexFinal =>
        \A i \in 1..(Len(finalized) - 1) :
            StrLess(finalized[i].key, finalized[i + 1].key)

\* a finished run whose first stylesheet uses only --y and whose second
\* stylesheet brings --x, which the index lists first
C3_Witness ==
    /\ pc = "done"
    /\ Len(stylesheets) = 2
    /\ DOMAIN Accumulate(<<stylesheets[1]>>, fs) = {nY}
    /\ Len(finalized) = 2
    /\ finalized[1].key = nX

----------------------------------------------------------------------------
(* C4: accumulation and finalization over the run's stylesheets taken in    *)
(* any order (the order of the run itself included) give the finalized      *)
(* Usage Index of the run: the same names and the same labels for each.     *)
C4_OrderIndependent ==
    IndexFinal =>
        \A f \in Permutations(1..Len(stylesheets)) :
            FinalizeIndex(Accumulate(Reordered(stylesheets, f), fs)) = finalized

\* a finished run over two stylesheets whose accumulated label lists come
\* out differently when the stylesheets are swapped
C4_Witness ==
    /\ pc = "done"
    /\ Len(stylesheets) = 2
    /\ Accumulate(stylesheets, fs)
         # Accumulate(<<stylesheets[2], stylesheets[1]>>, fs)

----------------------------------------------------------------------------
----------------------------------------------------------------------------
(* C6, as amended: a top-level rule of an unsupported variant (Scope,       *)
(* Nesting, StartingStyle, Property, CustomMedia) gets one warning, no      *)
(* usage is recorded from inside it, the following rules and stylesheets    *)
(* are still walked and recorded, and a run whose files can all be read     *)
(* ends with exit status 0 and the output it would have had without the     *)
(* unsupported rules.  An unsupported rule nested in a media, supports,     *)
(* container or layer rule is passed over without a warning.                *)
C6_UnsupportedSkipped ==
    /\ Len(Warnings) =
         Len(SelectSeq(WalkedRules, LAMBDA r : r.kind \in Unsupported))
    /\ pc = "walk" =>
         custom_properties = WalkRules(<<>>, WithoutUnsupported(WalkedRules))
    /\ (AllFilesOk /\ stylesheets # <<>> /\ pc \in {"exit", "done"}) =>
         /\ pc = "done"
         /\ status = 0
         /\ stdout = RenderOutput(format,
                        FinalizeIndex(WalkRules(<<>>, WithoutUnsupported(InputRules))))

\* a finished run that met an unsupported top-level rule holding a variable
\* reference, warned once, and recorded the usages of the rule after it
C6_Witness ==
    /\ pc = "done"
    /\ status = 0
    /\ Len(Warnings) = 1
    /\ Len(InputRules) = 2
    /\ InputRules[1].kind \in Unsupported
    /\ InputRules[1].rules # <<>>
    /\ \E b \in BlocksOf(InputRules[2]) : nX \in RefNames(b.declarations)
    /\ \E k \in 1..Len(finalized) : finalized[k].key = nX

\* C6 as stated: one warning for every rule of an unsupported variant the
\* walker comes across, nested in a conditional rule or not
C6_WarningForEveryUnsupported ==
    pc = "done" =>
        /\ status = 0
        /\ Len(Warnings) = UnsupportedIn(InputRules)
        /\ stdout = RenderOutput(format,
                       FinalizeIndex(WalkRules(<<>>, WithoutUnsupported(InputRules))))

----------------------------------------------------------------------------
(* C7: when one of the supplied stylesheets cannot be read or parsed, no    *)
(* index is finalized, nothing is rendered and the process does not end     *)
(* with status 0, wherever the failing stylesheet stands in the list and    *)
(* however many stylesheets were walked before it.                          *)
C7_FailFast ==
    ~AllFilesOk =>
        /\ stdout = <<>>
        /\ finalized = <<>>
        /\ pc \notin {"render", "done"}
        /\ pc = "exit" => status # 0

\* a run aborted at its second stylesheet after usages of the first one
\* were recorded, with nothing written to the output
C7_Witness ==
    /\ pc = "exit"
    /\ status = 101
    /\ Len(stylesheets) = 2
    /\ fs[stylesheets[1]].state = "ok"
    /\ fs[stylesheets[2]].state # "ok"
    /\ custom_properties # <<>>
    /\ stdout = <<>>

----------------------------------------------------------------------------
(* C8: for an argument list without the help flag that leaves no stylesheet *)
(* path once the format option, its value and every argument starting with  *)
(* `--` are removed, the process reports the error and ends with a non-zero *)
(* status; no stylesheet is read or walked, no index computed or rendered.  *)
C8_UsageErrorBeforeWalk ==
    (NoHelp /\ PathsOf(args) = <<>>) =>
        /\ reads = <<>>
        /\ pc \in {"start", "parsed", "exit"}
        /\ stdout = <<>>
        /\ pc = "exit" => (status # 0 /\ stderr # <<>>)

----------------------------------------------------------------------------
(* C9: for an argument list without the help flag that holds a format       *)
(* option (`--format=<value>`, or `--format` followed by the value), the    *)
(* mode selected is json, html or none when the value is that word and      *)
(* terminal otherwise, and the stylesheet paths are the arguments left      *)
(* after the option, its value and every `--` argument are removed.         *)
C9_FormatSelection ==
    (NoHelp /\ HoldsFormatOption(args) /\ pc # "start") =>
        /\ format = ModeOf(OptionValue(args))
        /\ stylesheets = PathsOf(args)

----------------------------------------------------------------------------
(* C10: a usage in a style rule directly nested in a media, supports,       *)
(* container or layer rule is recorded under the at-rule prefix (`@media    *)
(* <condition>`, `@supports <condition>`, `@container <condition>`,         *)
(* `@layer <name>`, bare `@layer` when unnamed), a newline, four spaces and *)
(* the selector, one label per selector; the bare selector is a label of    *)
(* the property only when a top-level style rule with it uses the property. *)
C10_NestedLabels ==
    IndexFinal =>
        \A r \in 1..Len(InputRules) :
            InputRules[r].kind \in Conditional =>
                \A c \in 1..Len(InputRules[r].rules) :
                    LET rule == InputRules[r]
                        child == rule.rules[c]
                    IN child.kind = "Style" =>
                        \A s \in 1..Len(child.selectors) :
                        \A n \in RefNames(child.declarations) :
                            ~StartsWith(n, sReserved) =>
                                /\ <<n, AtPrefix(rule) \o sNested \o child.selectors[s]>>
                                     \in IndexPairs
                                /\ <<n, child.selectors[s]>> \in IndexPairs =>
                                     \E t \in 1..Len(InputRules) :
                                        /\ InputRules[t].kind = "Style"
                                        /\ child.selectors[s] \in Range(InputRules[t].selectors)
                                        /\ n \in RefNames(InputRules[t].declarations)

\* a finished run in which .a uses --x at top level and inside an unnamed
\* layer: the property keeps the two labels `.a` and `@layer\n    .a`
C10_Witness ==
    /\ pc = "done"
    /\ \E i, j \in 1..Len(InputRules) :
        /\ InputRules[i].kind = "Style"
        /\ InputRules[i].selectors = <<selA>>
        /\ InputRules[j].kind = "LayerBlock"
        /\ InputRules[j].textKind = "None"
    /\ <<nX, selA>> \in IndexPairs
    /\ <<nX, sLayer \o sNested \o selA>> \in IndexPairs


----------------------------------------------------------------------------
(* Vocabulary of C11 *)

\* every name referred to anywhere in a rule: in its declarations, in its
\* keyframes steps and in the rules nested in it, at any depth
RECURSIVE DeepNames(_)
DeepNames(rule) ==
    RefNames(rule.declarations)
    \cup UNION { RefNames(rule.keyframes[i]) : i \in 1..Len(rule.keyframes) }
    \cup UNION { DeepNames(rule.rules[i]) : i \in 1..Len(rule.rules) }

\* a conditional rule cut down to its directly nested plain style rules
DirectStylesOf(rule) ==
    IF rule.kind \in Conditional
    THEN [rule EXCEPT !.rules =
            [i \in 1..Len(SelectSeq(@, LAMBDA c : c.kind = "Style")) |->
                [SelectSeq(@, LAMBDA c : c.kind = "Style")[i]
                    EXCEPT !.rules = <<>>]]]
    ELSE rule

DirectStylesOnly(sheet) == [i \in 1..Len(sheet) |-> DirectStylesOf(sheet[i])]

\* the rules with child c of rule r taken out (a child that is not a style
\* rule), or with the rules nested in it taken out (a child style rule)
WithoutOtherChild(sheet, r, c) ==
    IF sheet[r].rules[c].kind = "Style"
    THEN [sheet EXCEPT ![r].rules[c].rules = <<>>]
    ELSE [sheet EXCEPT ![r].rules =
            SubSeq(@, 1, c - 1) \o SubSeq(@, c + 1, Len(@))]

\* the names of the finalized index
IndexNames == { finalized[i].key : i \in 1..Len(finalized) }

----------------------------------------------------------------------------
(* C11: inside a media, supports, container or layer rule only the directly *)
(* nested plain style rules are scanned.  The map during the walk is the    *)
(* map of the rules cut down to those style rules, and the finalized index  *)
(* is the one the run would have without any single other child (a nested   *)
(* conditional rule, a nested keyframes rule, another at-rule) or without   *)
(* the rules nested in a child style rule: such a child adds no entry.      *)
C11_OnlyDirectStyleChildren ==
    /\ pc = "walk" =>
         custom_properties = WalkRules(<<>>, DirectStylesOnly(WalkedRules))
    /\ IndexFinal =>
         \A r \in 1..Len(InputRules) :
            InputRules[r].kind \in Conditional =>
                \A c \in 1..Len(InputRules[r].rules) :
                    finalized =
                        FinalizeIndex(WalkRules(<<>>, WithoutOtherChild(InputRules, r, c)))

\* a finished run over a conditional rule that holds a keyframes rule, a
\* conditional rule and a style rule with a nested style rule, all three
\* referring to --x: the index lists --y of the child style rule, not --x
C11_Witness ==
    /\ pc = "done"
    /\ nY \in IndexNames
    /\ nX \notin IndexNames
    /\ \E r \in 1..Len(InputRules) :
        /\ InputRules[r].kind \in Conditional
        /\ \E k, m, t \in 1..Len(InputRules[r].rules) :
            /\ InputRules[r].rules[k].kind = "Keyframes"
            /\ nX \in DeepNames(InputRules[r].rules[k])
            /\ InputRules[r].rules[m].kind \in Conditional
            /\ nX \in DeepNames(InputRules[r].rules[m])
            /\ InputRules[r].rules[t].kind = "Style"
            /\ InputRules[r].rules[t].rules # <<>>
            /\ nX \in DeepNames(InputRules[r].rules[t])

----------------------------------------------------------------------------
(* Vocabulary of C12 *)

\* how often the pair (name, label) is recorded in a map
Count(map, name, label) ==
    IF name \in DOMAIN map
    THEN Len(SelectSeq(map[name], LAMBDA l : l = label))
    ELSE 0

\* every pair recorded in `before` is recorded at least as often in `after`
Grows(before, after) ==
    \A name \in DOMAIN before :
        \A label \in Range(before[name]) :
            Count(before, name, label) <= Count(after, name, label)

\* one list is the beginning of the other
IsPrefix(short, long) ==
    /\ Len(short) <= Len(long)
    /\ SubSeq(long, 1, Len(short)) = short

\* the order of the run: empty index at the start, files opened in the order
\* of the paths, nothing written and nothing finalized during accumulation,
\* a finalized index only when every path has been walked
LifecycleState ==
    /\ (pc \in {"start", "parsed"} \/ reads = <<>>) =>
         (custom_properties = <<>> /\ finalized = <<>>)
    /\ IsPrefix(reads, stylesheets)
    /\ pc = "walk" => (stdout = <<>> /\ finalized = <<>>)
    /\ IndexFinal =>
         /\ reads = stylesheets
         /\ rules = <<>>
         /\ custom_properties = SortDedupAll(Accumulate(stylesheets, fs))
         /\ finalized = SortByKey(custom_properties)

\* the steps of the run: a file is opened when the rules of the one before
\* are drained, a walking step only adds pairs and writes nothing, the index
\* is finalized in one step taken after the last stylesheet, and never
\* again; output of an index is written by the one step after finalization,
\* which leaves the index as it is
LifecycleStep ==
    /\ reads' # reads =>
         /\ pc = "walk" /\ rules = <<>>
         /\ reads' = Append(reads, stylesheets[Len(reads) + 1])
    /\ (pc = "walk" /\ pc' = "walk") =>
         /\ Grows(custom_properties, custom_properties')
         /\ stdout' = stdout
    /\ (pc' = "render" /\ pc # "render") =>
         /\ pc = "walk"
         /\ reads = stylesheets /\ rules = <<>>
         /\ custom_properties' = SortDedupAll(custom_properties)
         /\ finalized' = SortByKey(custom_properties')
    /\ (finalized' # finalized \/ custom_properties' # custom_properties) =>
         pc = "walk"
    /\ IndexFinal =>
         /\ pc = "render" /\ pc' = "done"
         /\ finalized' = finalized
         /\ custom_properties' = custom_properties
    /\ (stdout' # stdout /\ pc # "start") =>
         /\ pc = "render"
         /\ stdout' = stdout \o RenderOutput(format, finalized)

----------------------------------------------------------------------------
(* C12: in every run the index starts empty, the stylesheets are walked one *)
(* after the other in the order supplied, during accumulation the multiset  *)
(* of recorded (name, label) pairs only grows and nothing is written to the *)
(* output, finalization (sort and dedup) happens in one step after the last *)
(* stylesheet has been walked and never again, and a renderer runs only     *)
(* after finalization and does not change the index.                        *)
C12_Lifecycle == [](LifecycleState) /\ [][LifecycleStep]_vars

\* a finished run over two stylesheets that both added pairs, a pair more
\* than once, whose index was then finalized and rendered
C12_Witness ==
    /\ pc = "done"
    /\ Len(stylesheets) = 2
    /\ reads = stylesheets
    /\ Accumulate(<<stylesheets[1]>>, fs) # <<>>
    /\ \E name \in DOMAIN Accumulate(stylesheets, fs) :
        /\ Len(Accumulate(stylesheets, fs)[name]) > Len(custom_properties[name])
        /\ name \in DOMAIN Accumulate(<<stylesheets[1]>>, fs) =>
             Len(Accumulate(stylesheets, fs)[name])
                > Len(Accumulate(<<stylesheets[1]>>, fs)[name])
    /\ stdout # <<>>

----------------------------------------------------------------------------
(* Vocabulary of C13 *)

\* the lines of a text in which every line ends with a newline
RECURSIVE TextLines(_)
TextLines(text) ==
    IF text = <<>> THEN <<>>
    ELSE <<Before(text, "\n")>> \o TextLines(After(text, "\n"))

\* the lines on the terminal at the end of the run
TerminalOutput == TextLines(PrintedText(stdout))

BlankLine == <<>>

\* a block as stated: the name, then one line per label, the label after
\* two spaces
StatedBlock(entry) ==
    <<entry.key>> \o [j \in 1..Len(entry.value) |-> sIndent \o entry.value[j]]

\* the lines a label takes when it is written after two spaces: one, or two
\* when the label holds a newline (the selector then stands after the four
\* spaces of the label itself)
RECURSIVE LabelLines(_)
LabelLines(value) ==
    IF value = <<>> THEN <<>>
    ELSE (IF Contains(value[1], "\n")
          THEN <<sIndent \o Before(value[1], "\n"), After(value[1], "\n")>>
          ELSE <<sIndent \o value[1]>>)
         \o LabelLines(Tail(value))

PrintedBlock(entry) == <<entry.key>> \o LabelLines(entry.value)

\* blocks one after the other with one blank line between two of them
RECURSIVE JoinBlocks(_)
JoinBlocks(blocks) ==
    IF blocks = <<>> THEN <<>>
    ELSE IF Tail(blocks) = <<>> THEN blocks[1]
    ELSE blocks[1] \o <<BlankLine>> \o JoinBlocks(Tail(blocks))

TerminalDone == pc = "done" /\ format = "Terminal"

----------------------------------------------------------------------------
(* C13, as amended: terminal rendering of a finalized index with n          *)
(* properties prints, in finalized order, one block per property: the name  *)
(* line, then every label written after two spaces, which is one line for a *)
(* plain label and two lines for the label of a nested usage (the at-rule   *)
(* prefix after two spaces, the selector after four).  No blank line comes  *)
(* before the first block, exactly one before each later block and none     *)
(* after the last; an empty index prints nothing.                           *)
C13_TerminalBlocks ==
    TerminalDone =>
        LET lines == TerminalOutput
            n == Len(finalized)
            blanks == { i \in 1..Len(lines) : lines[i] = BlankLine }
        IN /\ lines = JoinBlocks([i \in 1..n |-> PrintedBlock(finalized[i])])
           /\ n = 0 => stdout = <<>>
           /\ n > 0 => (lines[1] = finalized[1].key /\ Cardinality(blanks) = n - 1)
           /\ \A i \in blanks :
                /\ 1 < i /\ i < Len(lines)
                /\ lines[i - 1] # BlankLine
                /\ lines[i + 1] \in IndexNames
           /\ \A i \in 1..Len(lines) :
                lines[i] \in IndexNames \cup {BlankLine}
                    \/ StartsWith(lines[i], sIndent)

\* a finished terminal run whose index lists two properties, one of them
\* with a plain label and with the label of a nested usage
C13_Witness ==
    /\ TerminalDone
    /\ Len(finalized) = 2
    /\ \E i \in 1..Len(finalized) :
        \E j, k \in 1..Len(finalized[i].value) :
            /\ Contains(finalized[i].value[j], "\n")
            /\ ~Contains(finalized[i].value[k], "\n")
    /\ Len(TerminalOutput) > Len(stdout)

\* C13 as stated: the name line of each block is followed by one indented
\* line per label
C13_OneLinePerLabel ==
    TerminalDone =>
        TerminalOutput =
            JoinBlocks([i \in 1..Len(finalized) |-> StatedBlock(finalized[i])])

=============================================================================
